---- MODULE Spec2Model ----
(***************************************************************************)
(* The evaluation kernels of govaluate (evaluationStage.go): operator      *)
(* kernels over scalars and vectors, the nodata sentinel of the ternary    *)
(* kernels, the regex, membership and separator kernels, the evaluator     *)
(* driver's short-circuit rules, the reflective accessor, swapWith, the    *)
(* storage of slices under the kernels, and the canonicalization of        *)
(* parameters (sanitizedParameters.go).                                    *)
(*                                                                         *)
(* A value (Go interface{}) is a record [t, v]: t is the dynamic type.     *)
(* A float32 is a record [k, n]: k = "fin" is the integer-valued float n,  *)
(* "nan" is NaN, "pinf"/"ninf" the infinities, "tiny" is                   *)
(* math.SmallestNonzeroFloat32, and "other" stands for every float32 this  *)
(* model does not compute exactly (fractions, implementation-dependent     *)
(* float-to-integer conversions).                                          *)
(***************************************************************************)
EXTENDS Integers, Sequences, FiniteSets, TLC

VARIABLES
    left,        \* the kernel's left operand (the condition, for a ternary)
    right,       \* the kernel's right operand
    alt,         \* the alternative of a ternary expression (right of ternary-else)
    parameters,  \* the parameter source: a function from names to values
    stage,       \* the stage tree handed to the driver; the stages by address, for swapWith
    op,          \* the name of the kernel or operation that ran last
    mid,         \* an intermediate result (ternary-if, the first canonicalization); the memory of slices
    ret,         \* the (value, error) pair returned, or a panic
    calls,       \* the leaves the driver evaluated, in order; the swaps done; the slices returned
    pc

vars == <<left, right, alt, parameters, stage, op, mid, ret, calls, pc>>

\* ---------------------------------------------------------------- bounds

MaxLen == 2
MaxNum == 1
MaxListLen == 2
MaxPath == 3
MaxSwaps == 2
MaxCalls == 2

\* ---------------------------------------------------------------- float32

Fin(n) == [k |-> "fin", n |-> n]
NaN == [k |-> "nan", n |-> 0]
PInf == [k |-> "pinf", n |-> 0]
NInf == [k |-> "ninf", n |-> 0]
SmallestNonzeroFloat32 == [k |-> "tiny", n |-> 0]
Unmodelled == [k |-> "other", n |-> 0]

Abs(n) == IF n < 0 THEN -n ELSE n
Sgn(n) == IF n < 0 THEN -1 ELSE 1

AnyNaN(a, b) == a.k = "nan" \/ b.k = "nan"
BothFin(a, b) == a.k = "fin" /\ b.k = "fin"

\* Go's == on float32: NaN equals nothing, itself included.
FEq(a, b) == ~AnyNaN(a, b) /\ a = b

\* The position of a finite modelled float on the number line, doubled so
\* that the smallest nonzero float sits between 0 and 1.
FOrd(a) == IF a.k = "tiny" THEN 1 ELSE 2 * a.n

\* Go's < on float32.
FLt(a, b) ==
    /\ ~AnyNaN(a, b)
    /\ a # b
    /\ \/ a.k = "ninf"
       \/ b.k = "pinf"
       \/ /\ a.k \in {"fin", "tiny"}
          /\ b.k \in {"fin", "tiny"}
          /\ FOrd(a) < FOrd(b)

FAdd(a, b) ==
    IF AnyNaN(a, b) THEN NaN
    ELSE IF BothFin(a, b) THEN Fin(a.n + b.n)
    ELSE Unmodelled

FSub(a, b) ==
    IF AnyNaN(a, b) THEN NaN
    ELSE IF BothFin(a, b) THEN Fin(a.n - b.n)
    ELSE Unmodelled

FMul(a, b) ==
    IF AnyNaN(a, b) THEN NaN
    ELSE IF BothFin(a, b) THEN Fin(a.n * b.n)
    ELSE Unmodelled

FDiv(a, b) ==
    IF AnyNaN(a, b) THEN NaN
    ELSE IF ~BothFin(a, b) THEN Unmodelled
    ELSE IF b.n = 0
         THEN (IF a.n = 0 THEN NaN ELSE IF a.n > 0 THEN PInf ELSE NInf)
    ELSE IF Abs(a.n) % Abs(b.n) = 0
         THEN Fin(Sgn(a.n) * Sgn(b.n) * (Abs(a.n) \div Abs(b.n)))
    ELSE Unmodelled

\* math.Mod: the result has the sign of the dividend; Mod(x, 0) is NaN.
FMod(a, b) ==
    IF AnyNaN(a, b) THEN NaN
    ELSE IF ~BothFin(a, b) THEN Unmodelled
    ELSE IF b.n = 0 THEN NaN
    ELSE Fin(Sgn(a.n) * (Abs(a.n) % Abs(b.n)))

\* math.Pow: Pow(x, 0) = 1 and Pow(1, y) = 1 for every x and y, NaN included.
FPow(a, b) ==
    IF b = Fin(0) \/ a = Fin(1) THEN Fin(1)
    ELSE IF AnyNaN(a, b) THEN NaN
    ELSE IF ~BothFin(a, b) THEN Unmodelled
    ELSE IF b.n > 0 THEN Fin(a.n ^ b.n)
    ELSE IF a.n = 0 THEN PInf
    ELSE IF a.n = -1 THEN Fin(IF Abs(b.n) % 2 = 0 THEN 1 ELSE -1)
    ELSE Unmodelled

\* Two's complement and, or, xor of int64 values far from the type's limits.
RECURSIVE BitAnd(_, _)
BitAnd(x, y) ==
    IF x = 0 \/ y = 0 THEN 0
    ELSE IF x = -1 THEN y
    ELSE IF y = -1 THEN x
    ELSE (x % 2) * (y % 2) + 2 * BitAnd(x \div 2, y \div 2)

RECURSIVE BitOr(_, _)
BitOr(x, y) ==
    IF x = 0 THEN y
    ELSE IF y = 0 THEN x
    ELSE IF x = -1 \/ y = -1 THEN -1
    ELSE (IF x % 2 = 1 \/ y % 2 = 1 THEN 1 ELSE 0) + 2 * BitOr(x \div 2, y \div 2)

RECURSIVE BitXor(_, _)
BitXor(x, y) ==
    IF x = 0 THEN y
    ELSE IF y = 0 THEN x
    ELSE IF x = -1 THEN -y - 1
    ELSE IF y = -1 THEN -x - 1
    ELSE (IF x % 2 = y % 2 THEN 0 ELSE 1) + 2 * BitXor(x \div 2, y \div 2)

\* float32(int64(a) OP int64(b)); int64 of a NaN is implementation-dependent.
FBitOr(a, b) == IF BothFin(a, b) THEN Fin(BitOr(a.n, b.n)) ELSE Unmodelled
FBitAnd(a, b) == IF BothFin(a, b) THEN Fin(BitAnd(a.n, b.n)) ELSE Unmodelled
FBitXor(a, b) == IF BothFin(a, b) THEN Fin(BitXor(a.n, b.n)) ELSE Unmodelled

\* float32(uint64(a) << uint64(b)); uint64 of a negative float or of a NaN
\* is implementation-dependent.
FShl(a, b) ==
    IF BothFin(a, b) /\ a.n >= 0 /\ b.n >= 0
    THEN Fin(a.n * (2 ^ b.n))
    ELSE Unmodelled

FShr(a, b) ==
    IF BothFin(a, b) /\ a.n >= 0 /\ b.n >= 0
    THEN Fin(a.n \div (2 ^ b.n))
    ELSE Unmodelled

\* ---------------------------------------------------------------- values

Num(f) == [t |-> "num", v |-> f]
NumVec(s) == [t |-> "numvec", v |-> s]
Bool(b) == [t |-> "bool", v |-> b]
BoolVec(s) == [t |-> "boolvec", v |-> s]
Str(s) == [t |-> "str", v |-> s]
Regex(p) == [t |-> "regex", v |-> p]
List(s) == [t |-> "list", v |-> s]
Nil == [t |-> "nil", v |-> 0]

NoErr == ""
Ok(value) == [val |-> value, err |-> NoErr, panic |-> FALSE]
Err(msg) == [val |-> Nil, err |-> msg, panic |-> FALSE]
Panic == [val |-> Nil, err |-> NoErr, panic |-> TRUE]
NoRet == [val |-> Nil, err |-> "not run", panic |-> FALSE]

\* ---------------------------------------------------------------- helpers

isString(value) == value.t = "str"
isRegexOrString(value) == value.t \in {"str", "regex"}
isBool(value) == value.t \in {"bool", "boolvec"}
isFloat32(value) == value.t \in {"num", "numvec"}
isArray(value) == value.t = "list"

additionTypeCheck(l, r) ==
    IF isFloat32(l) /\ isFloat32(r) THEN TRUE
    ELSE IF ~isString(l) /\ ~isString(r) THEN FALSE
    ELSE TRUE

comparatorTypeCheck(l, r) ==
    IF isFloat32(l) /\ isFloat32(r) THEN TRUE
    ELSE IF isString(l) /\ isString(r) THEN TRUE
    ELSE FALSE

\* The strings of the model, in Go's (bytewise) order.
StrOrder == <<"", "(", "a", "ab">>
StrIndex(s) == CHOOSE i \in 1..Len(StrOrder) : StrOrder[i] = s
StrLt(a, b) == StrIndex(a) < StrIndex(b)

\* fmt's %v of a float32.
RenderF32(f) ==
    CASE f.k = "fin" -> ToString(f.n)
      [] f.k = "nan" -> "NaN"
      [] f.k = "pinf" -> "+Inf"
      [] f.k = "ninf" -> "-Inf"
      [] f.k = "tiny" -> "1e-45"
      [] OTHER -> "?"

RenderBool(b) == IF b THEN "true" ELSE "false"

\* fmt's %v of a value: a slice is its elements' renderings, separated by
\* spaces, in brackets; nil is <nil>; a *Regexp is its pattern.
RECURSIVE RenderSeq(_, _)
RECURSIVE Render(_)
Render(value) ==
    CASE value.t = "num" -> RenderF32(value.v)
      [] value.t = "bool" -> RenderBool(value.v)
      [] value.t = "str" -> value.v
      [] value.t = "regex" -> value.v
      [] value.t = "nil" -> "<nil>"
      [] value.t = "numvec" ->
            "[" \o RenderSeq([i \in 1..Len(value.v) |-> Num(value.v[i])], 1) \o "]"
      [] value.t = "boolvec" ->
            "[" \o RenderSeq([i \in 1..Len(value.v) |-> Bool(value.v[i])], 1) \o "]"
      [] value.t = "list" -> "[" \o RenderSeq(value.v, 1) \o "]"

RenderSeq(s, i) ==
    IF i > Len(s) THEN ""
    ELSE IF i = Len(s) THEN Render(s[i])
    ELSE Render(s[i]) \o " " \o RenderSeq(s, i + 1)

\* The parameter source: Get(name) returns the value bound to the name, or
\* an error when the name is not bound.
Get(params, name) ==
    IF name \in DOMAIN params
    THEN Ok(params[name])
    ELSE Err("No parameter '" \o name \o "' found.")

\* getNoData with the zero float32 as the default sentinel.
getNoDataZeroDefault(params) ==
    LET got == Get(params, "nodata") IN
    IF got.err = NoErr
    THEN IF got.val.t # "num"
         THEN [noData |-> Fin(0), err |-> "invalid nodata value: " \o Render(got.val)]
         ELSE [noData |-> got.val.v, err |-> NoErr]
    ELSE [noData |-> Fin(0), err |-> NoErr]

getNoData(params) ==
    LET got == Get(params, "nodata") IN
    IF got.err = NoErr
    THEN IF got.val.t # "num"
         THEN [noData |-> Fin(0), err |-> "invalid nodata value: " \o Render(got.val)]
         ELSE [noData |-> got.val.v, err |-> NoErr]
    ELSE [noData |-> SmallestNonzeroFloat32, err |-> NoErr]

differentArraySizes(m, n) ==
    "different array sizes: " \o ToString(m) \o ", " \o ToString(n)

\* ---------------------------------------------------------------- kernels

ArithmeticSymbols == {"+", "-", "*", "/", "**", "%"}
BitwiseSymbols == {"|", "&", "^", "<<", ">>"}
ComparatorSymbols == {">=", ">", "<=", "<"}
EqualitySymbols == {"==", "!="}
LogicalSymbols == {"&&", "||"}
NumericSymbols ==
    ArithmeticSymbols \cup BitwiseSymbols \cup ComparatorSymbols \cup EqualitySymbols

\* What a kernel computes for one lane.
LaneOp(sym, a, b) ==
    CASE sym = "+" -> FAdd(a, b)
      [] sym = "-" -> FSub(a, b)
      [] sym = "*" -> FMul(a, b)
      [] sym = "/" -> FDiv(a, b)
      [] sym = "**" -> FPow(a, b)
      [] sym = "%" -> FMod(a, b)
      [] sym = "|" -> FBitOr(a, b)
      [] sym = "&" -> FBitAnd(a, b)
      [] sym = "^" -> FBitXor(a, b)
      [] sym = "<<" -> FShl(a, b)
      [] sym = ">>" -> FShr(a, b)
      [] sym = ">=" -> FLt(b, a) \/ FEq(a, b)
      [] sym = ">" -> FLt(b, a)
      [] sym = "<=" -> FLt(a, b) \/ FEq(a, b)
      [] sym = "<" -> FLt(a, b)
      [] sym = "==" -> FEq(a, b)
      [] sym = "!=" -> ~FEq(a, b)
      [] sym = "&&" -> a /\ b
      [] sym = "||" -> a \/ b

\* The operand type a kernel asserts (float32 or bool) and its result type.
InT(sym) == IF sym \in LogicalSymbols THEN "bool" ELSE "num"
OutT(sym) ==
    IF sym \in ComparatorSymbols \cup EqualitySymbols \cup LogicalSymbols
    THEN "bool" ELSE "num"
VecT(t) == IF t = "num" THEN "numvec" ELSE "boolvec"
Scalar(t, x) == [t |-> t, v |-> x]
Vector(t, s) == [t |-> VecT(t), v |-> s]

\* broadcast without the comparison of the two lengths: the result is cut
\* to the shorter vector.
broadcastTruncating(sym, invalid, l, r) ==
    LET laok == l.t = VecT(InT(sym))
        lok == l.t = InT(sym)
        raok == r.t = VecT(InT(sym))
        rok == r.t = InT(sym)
        shorter == IF Len(l.v) <= Len(r.v) THEN Len(l.v) ELSE Len(r.v)
    IN  IF laok /\ raok
        THEN Ok(Vector(OutT(sym), [i \in 1..shorter |-> LaneOp(sym, l.v[i], r.v[i])]))
        ELSE IF laok /\ rok
        THEN Ok(Vector(OutT(sym), [i \in 1..Len(l.v) |-> LaneOp(sym, l.v[i], r.v)]))
        ELSE IF lok /\ raok
        THEN Ok(Vector(OutT(sym), [i \in 1..Len(r.v) |-> LaneOp(sym, l.v, r.v[i])]))
        ELSE IF lok /\ rok
        THEN Ok(Scalar(OutT(sym), LaneOp(sym, l.v, r.v)))
        ELSE Err(invalid)

\* broadcast with the operands of the scalar-vector branch exchanged.
broadcastSwapped(sym, invalid, l, r) ==
    LET laok == l.t = VecT(InT(sym))
        lok == l.t = InT(sym)
        raok == r.t = VecT(InT(sym))
        rok == r.t = InT(sym)
    IN  IF laok /\ raok
        THEN IF Len(l.v) # Len(r.v)
             THEN Err(differentArraySizes(Len(l.v), Len(r.v)))
             ELSE Ok(Vector(OutT(sym),
                     [i \in 1..Len(l.v) |-> LaneOp(sym, l.v[i], r.v[i])]))
        ELSE IF laok /\ rok
        THEN Ok(Vector(OutT(sym), [i \in 1..Len(l.v) |-> LaneOp(sym, l.v[i], r.v)]))
        ELSE IF lok /\ raok
        THEN Ok(Vector(OutT(sym), [i \in 1..Len(r.v) |-> LaneOp(sym, r.v[i], l.v)]))
        ELSE IF lok /\ rok
        THEN Ok(Scalar(OutT(sym), LaneOp(sym, l.v, r.v)))
        ELSE Err(invalid)

\* The body every binary kernel repeats: the four type assertions, then
\* vector-vector (lengths must agree), vector-scalar, scalar-vector,
\* scalar-scalar, then the operand error.
broadcast(sym, invalid, l, r) ==
    LET laok == l.t = VecT(InT(sym))
        lok == l.t = InT(sym)
        raok == r.t = VecT(InT(sym))
        rok == r.t = InT(sym)
    IN  IF laok /\ raok
        THEN IF Len(l.v) # Len(r.v)
             THEN Err(differentArraySizes(Len(l.v), Len(r.v)))
             ELSE Ok(Vector(OutT(sym),
                     [i \in 1..Len(l.v) |-> LaneOp(sym, l.v[i], r.v[i])]))
        ELSE IF laok /\ rok
        THEN Ok(Vector(OutT(sym), [i \in 1..Len(l.v) |-> LaneOp(sym, l.v[i], r.v)]))
        ELSE IF lok /\ raok
        THEN Ok(Vector(OutT(sym), [i \in 1..Len(r.v) |-> LaneOp(sym, l.v, r.v[i])]))
        ELSE IF lok /\ rok
        THEN Ok(Scalar(OutT(sym), LaneOp(sym, l.v, r.v)))
        ELSE Err(invalid)

\* addStage concatenating only when both operands are strings.
addStageBothStrings(l, r, params) ==
    IF isString(l) /\ isString(r)
    THEN Ok(Str(Render(l) \o Render(r)))
    ELSE broadcast("+", "invalid operand for addition", l, r)

addStage(l, r, params) ==
    IF isString(l) \/ isString(r)
    THEN Ok(Str(Render(l) \o Render(r)))
    ELSE broadcast("+", "invalid operand for addition", l, r)

subtractStage(l, r, params) == broadcast("-", "invalid operand for subtraction", l, r)
multiplyStage(l, r, params) == broadcast("*", "invalid operand for multiplication", l, r)
divideStage(l, r, params) == broadcast("/", "invalid operand for division", l, r)
exponentStage(l, r, params) == broadcast("**", "invalid operand for exponential", l, r)
modulusStage(l, r, params) == broadcast("%", "invalid operand for modulus", l, r)

gteStage(l, r, params) ==
    IF isString(l) /\ isString(r)
    THEN Ok(Bool(~StrLt(l.v, r.v)))
    ELSE broadcast(">=", "invalid operand for >=", l, r)

gtStage(l, r, params) ==
    IF isString(l) /\ isString(r)
    THEN Ok(Bool(StrLt(r.v, l.v)))
    ELSE broadcast(">", "invalid operand for >", l, r)

lteStage(l, r, params) ==
    IF isString(l) /\ isString(r)
    THEN Ok(Bool(~StrLt(r.v, l.v)))
    ELSE broadcast("<=", "invalid operand for <=", l, r)

ltStage(l, r, params) ==
    IF isString(l) /\ isString(r)
    THEN Ok(Bool(StrLt(l.v, r.v)))
    ELSE broadcast("<", "invalid operand for <", l, r)

equalStage(l, r, params) == broadcast("==", "invalid operand for ==", l, r)
notEqualStage(l, r, params) == broadcast("!=", "invalid operand for !=", l, r)
andStage(l, r, params) == broadcast("&&", "invalid operand for &&", l, r)
orStage(l, r, params) == broadcast("||", "invalid operand for ||", l, r)
bitwiseOrStage(l, r, params) == broadcast("|", "invalid operand for |", l, r)
bitwiseAndStage(l, r, params) == broadcast("&", "invalid operand for &", l, r)
bitwiseXORStage(l, r, params) == broadcast("^", "invalid operand for ^", l, r)
leftShiftStage(l, r, params) == broadcast("<<", "invalid operand for <<", l, r)
rightShiftStage(l, r, params) == broadcast(">>", "invalid operand for >>", l, r)

negateStage(l, r, params) ==
    IF r.t = "numvec"
    THEN Ok(NumVec([i \in 1..Len(r.v) |-> FSub(Fin(0), r.v[i])]))
    ELSE IF r.t = "num" THEN Ok(Num(FSub(Fin(0), r.v)))
    ELSE Err("invalid operand for -")

invertStage(l, r, params) ==
    IF r.t = "boolvec"
    THEN Ok(BoolVec([i \in 1..Len(r.v) |-> ~r.v[i]]))
    ELSE IF r.t = "bool" THEN Ok(Bool(~r.v))
    ELSE Err("invalid operand for !")

\* float32(^int64(x)): the complement of x is -x - 1.
FBitNot(a) == IF a.k = "fin" THEN Fin(-a.n - 1) ELSE Unmodelled

bitwiseNotStage(l, r, params) ==
    IF r.t = "numvec"
    THEN Ok(NumVec([i \in 1..Len(r.v) |-> FBitNot(r.v[i])]))
    ELSE IF r.t = "num" THEN Ok(Num(FBitNot(r.v)))
    ELSE Err("invalid operand for ^")

ternaryIfStage(l, r, params) ==
    LET nd == getNoData(params)
        noData == nd.noData
        laok == l.t = "boolvec"
        lok == l.t = "bool"
        raok == r.t = "numvec"
        rok == r.t = "num"
    IN  IF nd.err # NoErr THEN Err(nd.err)
        ELSE IF laok /\ raok
        THEN IF Len(l.v) # Len(r.v)
             THEN Err(differentArraySizes(Len(l.v), Len(r.v)))
             ELSE Ok(NumVec([i \in 1..Len(l.v) |-> IF l.v[i] THEN r.v[i] ELSE noData]))
        ELSE IF laok /\ rok
        THEN Ok(NumVec([i \in 1..Len(l.v) |-> IF l.v[i] THEN r.v ELSE noData]))
        ELSE IF lok /\ raok
        THEN Ok(NumVec([i \in 1..Len(r.v) |-> IF l.v THEN r.v[i] ELSE noData]))
        ELSE IF lok /\ rok
        THEN (IF l.v THEN Ok(Num(r.v)) ELSE Ok(Num(noData)))
        ELSE Err("invalid operand for ternary if")

\* ternaryElseStage keeping every lane of a left vector, sentinel or not.
ternaryElseStageKeepsLeft(l, r, params) ==
    LET nd == getNoData(params)
        noData == nd.noData
        laok == l.t = "numvec"
        lok == l.t = "num"
        lx == IF lok THEN l.v ELSE Fin(0)
        raok == r.t = "numvec"
        rok == r.t = "num"
    IN  IF nd.err # NoErr THEN Err(nd.err)
        ELSE IF laok /\ raok
        THEN IF Len(l.v) # Len(r.v)
             THEN Err(differentArraySizes(Len(l.v), Len(r.v)))
             ELSE Ok(NumVec([i \in 1..Len(l.v) |-> l.v[i]]))
        ELSE IF laok /\ rok
        THEN Ok(NumVec([i \in 1..Len(l.v) |-> l.v[i]]))
        ELSE IF (lok \/ FEq(lx, noData)) /\ raok
        THEN Ok(NumVec([i \in 1..Len(r.v) |-> IF FEq(lx, noData) THEN r.v[i] ELSE lx]))
        ELSE IF (lok \/ FEq(lx, noData)) /\ rok
        THEN (IF FEq(lx, noData) THEN Ok(Num(r.v)) ELSE Ok(Num(lx)))
        ELSE Err("invalid operand for ternary else")

\* lx is the zero float32 when the assertion left.(float32) fails.
ternaryElseStage(l, r, params) ==
    LET nd == getNoData(params)
        noData == nd.noData
        laok == l.t = "numvec"
        lok == l.t = "num"
        lx == IF lok THEN l.v ELSE Fin(0)
        raok == r.t = "numvec"
        rok == r.t = "num"
    IN  IF nd.err # NoErr THEN Err(nd.err)
        ELSE IF laok /\ raok
        THEN IF Len(l.v) # Len(r.v)
             THEN Err(differentArraySizes(Len(l.v), Len(r.v)))
             ELSE Ok(NumVec([i \in 1..Len(l.v) |->
                        IF FEq(l.v[i], noData) THEN r.v[i] ELSE l.v[i]]))
        ELSE IF laok /\ rok
        THEN Ok(NumVec([i \in 1..Len(l.v) |->
                        IF FEq(l.v[i], noData) THEN r.v ELSE l.v[i]]))
        ELSE IF (lok \/ FEq(lx, noData)) /\ raok
        THEN Ok(NumVec([i \in 1..Len(r.v) |-> IF FEq(lx, noData) THEN r.v[i] ELSE lx]))
        ELSE IF (lok \/ FEq(lx, noData)) /\ rok
        THEN (IF FEq(lx, noData) THEN Ok(Num(r.v)) ELSE Ok(Num(lx)))
        ELSE Err("invalid operand for ternary else")

\* regexp.Compile and Regexp.Match on the patterns of the model: "(" does
\* not compile; the empty pattern matches every string; "a" and "ab" match
\* the strings that contain them.
regexpCompiles(pattern) == pattern # "("
regexpMatch(pattern, s) ==
    CASE pattern = "" -> TRUE
      [] pattern = "a" -> s \in {"a", "ab"}
      [] pattern = "ab" -> s = "ab"
      [] OTHER -> FALSE

\* A pattern that is neither a string nor a *Regexp stays nil, and Match on
\* it panics, as does the assertion left.(string) on a left that is no string.
regexStage(l, r, params) ==
    IF r.t = "str" /\ ~regexpCompiles(r.v)
    THEN Err("Unable to compile regexp pattern '" \o r.v \o "'")
    ELSE IF ~isRegexOrString(r) \/ ~isString(l) THEN Panic
    ELSE Ok(Bool(regexpMatch(r.v, l.v)))

\* notRegexStage returning the match unnegated.
notRegexStageUnnegated(l, r, params) ==
    LET got == regexStage(l, r, params) IN
    IF got.panic THEN Panic
    ELSE IF got.err # NoErr THEN Err(got.err)
    ELSE Ok(Bool(got.val.v))

notRegexStage(l, r, params) ==
    LET got == regexStage(l, r, params) IN
    IF got.panic THEN Panic
    ELSE IF got.err # NoErr THEN Err(got.err)
    ELSE Ok(Bool(~got.val.v))

\* separatorStage wrapping its operands in a new list even when left is a list.
separatorStageAlwaysPair(l, r, params) == Ok(List(<<l, r>>))

separatorStage(l, r, params) ==
    IF l.t = "list"
    THEN Ok(List(Append(l.v, r)))
    ELSE Ok(List(<<l, r>>))

\* Go's == on two interface values: values of different dynamic types are
\* unequal; values of the same slice type cannot be compared (a run-time
\* panic); floats compare as floats; the rest by value.
Uncomparable(a, b) == a.t = b.t /\ a.t \in {"numvec", "boolvec", "list"}
ifaceEqual(a, b) ==
    /\ a.t = b.t
    /\ IF a.t = "num" THEN FEq(a.v, b.v) ELSE a.v = b.v

RECURSIVE inLoop(_, _, _)
inLoop(l, elems, i) ==
    IF i > Len(elems) THEN Ok(Bool(FALSE))
    ELSE IF Uncomparable(l, elems[i]) THEN Panic
    ELSE IF ifaceEqual(l, elems[i]) THEN Ok(Bool(TRUE))
    ELSE inLoop(l, elems, i + 1)

inStage(l, r, params) ==
    IF r.t # "list" THEN Panic ELSE inLoop(l, r.v, 1)

noopStageRight(l, r, params) == Ok(r)

\* ---------------------------------------------------------------- stages

\* A stage: its symbol, its children, and what its operator captured (the
\* literal of a LITERAL stage, the name of a PARAMETER stage).
NoStage == [symbol |-> "NONE"]
Stage(symbol, l, r) == [symbol |-> symbol, leftStage |-> l, rightStage |-> r, arg |-> Nil]
Literal(value) ==
    [symbol |-> "LITERAL", leftStage |-> NoStage, rightStage |-> NoStage, arg |-> value]
Parameter(name) ==
    [symbol |-> "PARAMETER", leftStage |-> NoStage, rightStage |-> NoStage, arg |-> Str(name)]

\* isShortCircuitable without the logical operators.
isShortCircuitableTernaryOnly(this) ==
    this.symbol \in {"TERNARY_TRUE", "TERNARY_FALSE", "COALESCE"}

isShortCircuitable(this) ==
    this.symbol \in {"AND", "OR", "TERNARY_TRUE", "TERNARY_FALSE", "COALESCE"}

makeParameterStage(parameterName, params) == Get(params, parameterName)
makeLiteralStage(literal) == Ok(literal)

\* The type checks the planner gives a stage: both operands of a logical
\* operator and the condition of a ternary are bools; the rest is unchecked.
leftTypeCheck(this, value) ==
    this.symbol \in {"AND", "OR", "TERNARY_TRUE"} => isBool(value)
rightTypeCheck(this, value) ==
    this.symbol \in {"AND", "OR"} => isBool(value)
typeError(this, value) ==
    "Value '" \o Render(value) \o "' cannot be used with the operator '"
        \o this.symbol \o "'"

\* The operator of a stage, applied to the values of its children.
stageOperator(this, l, r, params) ==
    CASE this.symbol = "LITERAL" -> makeLiteralStage(this.arg)
      [] this.symbol = "PARAMETER" -> makeParameterStage(this.arg.v, params)
      [] this.symbol = "AND" -> andStage(l, r, params)
      [] this.symbol = "OR" -> orStage(l, r, params)
      [] this.symbol = "COALESCE" -> noopStageRight(l, r, params)
      [] this.symbol = "TERNARY_TRUE" -> ternaryIfStage(l, r, params)
      [] this.symbol = "TERNARY_FALSE" -> ternaryElseStage(l, r, params)

\* Whether the stage returns on the value of its left child alone, and what
\* it returns then.
shortCircuits(this, l) ==
    /\ isShortCircuitable(this)
    /\ \/ this.symbol = "AND" /\ l.t = "bool" /\ l.v = FALSE
       \/ this.symbol = "OR" /\ l.t = "bool" /\ l.v = TRUE
       \/ this.symbol = "COALESCE" /\ l.t # "nil"
       \/ this.symbol = "TERNARY_TRUE" /\ l.t = "bool" /\ l.v = FALSE
       \/ this.symbol = "TERNARY_FALSE" /\ l.t # "nil"

shortCircuitValue(this, l) ==
    IF this.symbol = "TERNARY_TRUE" THEN Ok(Nil) ELSE Ok(l)

\* The driver: left child, short-circuit, right child, type checks, kernel.
\* An error of a child is returned unchanged. log is the sequence of the
\* parameter names looked up so far.
RECURSIVE evaluateStage(_, _, _)
evaluateStage(this, params, log) ==
    LET L == IF this.leftStage.symbol # "NONE"
             THEN evaluateStage(this.leftStage, params, log)
             ELSE [ret |-> Ok(Nil), calls |-> log]
        l == L.ret.val
        R == IF this.rightStage.symbol # "NONE"
             THEN evaluateStage(this.rightStage, params, L.calls)
             ELSE [ret |-> Ok(Nil), calls |-> L.calls]
        r == R.ret.val
        isLeaf == this.leftStage.symbol = "NONE" /\ this.rightStage.symbol = "NONE"
    IN  IF L.ret.err # NoErr THEN L
        ELSE IF shortCircuits(this, l)
        THEN [ret |-> shortCircuitValue(this, l), calls |-> L.calls]
        ELSE IF R.ret.err # NoErr THEN R
        ELSE IF ~isLeaf /\ ~leftTypeCheck(this, l)
        THEN [ret |-> Err(typeError(this, l)), calls |-> R.calls]
        ELSE IF ~isLeaf /\ ~rightTypeCheck(this, r)
        THEN [ret |-> Err(typeError(this, r)), calls |-> R.calls]
        ELSE [ret |-> stageOperator(this, l, r, params),
              calls |-> IF this.symbol = "PARAMETER"
                        THEN Append(R.calls, this.arg.v)
                        ELSE R.calls]

\* ---------------------------------------------------------------- inputs

Seqs(S, n) == UNION {[1..k -> S] : k \in 0..n}

NumLanes == {Fin(n) : n \in 0..MaxNum} \cup {NaN}
Nums == {Num(f) : f \in NumLanes \cup {Fin(-1)}}
NumVecs == {NumVec(s) : s \in Seqs(NumLanes, MaxLen)}
Bools == {Bool(b) : b \in BOOLEAN}
BoolVecs == {BoolVec(s) : s \in Seqs(BOOLEAN, MaxLen)}
Strs == {Str(StrOrder[i]) : i \in 1..Len(StrOrder)}
Regexes == {Regex("a"), Regex("")}
SampleLists == {List(<<>>), List(<<Num(Fin(1)), Str("a")>>)}

Operands ==
    Nums \cup NumVecs \cup Bools \cup BoolVecs \cup Strs \cup Regexes
        \cup SampleLists \cup {Nil}

\* Parameter sources: with no nodata entry, with a float32 nodata, and with
\* a nodata that is not a float32.
NoParams == [name \in {} |-> Nil]
NoDataValues ==
    {Num(Fin(0)), Num(Fin(1)), Num(NaN), Str("a"), NumVec(<<Fin(0)>>), Nil}
KernelParams == {NoParams} \cup {("nodata" :> value) : value \in NoDataValues}

\* ---------------------------------------------------------------- kernels, one call each

InitKernel ==
    /\ left \in Operands
    /\ right \in Operands
    /\ alt = Nil
    /\ parameters = NoParams
    /\ stage = NoStage
    /\ op = "none"
    /\ mid = NoRet
    /\ ret = NoRet
    /\ calls = <<>>
    /\ pc = "ready"

Call(name, result) ==
    /\ pc = "ready"
    /\ op' = name
    /\ ret' = result
    /\ pc' = "done"
    /\ UNCHANGED <<left, right, alt, parameters, stage, mid, calls>>

CallWith(name, params, result) ==
    /\ pc = "ready"
    /\ op' = name
    /\ parameters' = params
    /\ ret' = result
    /\ pc' = "done"
    /\ UNCHANGED <<left, right, alt, stage, mid, calls>>

AddStage == Call("+", addStage(left, right, parameters))
SubtractStage == Call("-", subtractStage(left, right, parameters))
MultiplyStage == Call("*", multiplyStage(left, right, parameters))
DivideStage == Call("/", divideStage(left, right, parameters))
ExponentStage == Call("**", exponentStage(left, right, parameters))
ModulusStage == Call("%", modulusStage(left, right, parameters))
GteStage == Call(">=", gteStage(left, right, parameters))
GtStage == Call(">", gtStage(left, right, parameters))
LteStage == Call("<=", lteStage(left, right, parameters))
LtStage == Call("<", ltStage(left, right, parameters))
EqualStage == Call("==", equalStage(left, right, parameters))
NotEqualStage == Call("!=", notEqualStage(left, right, parameters))
AndStage == Call("&&", andStage(left, right, parameters))
OrStage == Call("||", orStage(left, right, parameters))
BitwiseOrStage == Call("|", bitwiseOrStage(left, right, parameters))
BitwiseAndStage == Call("&", bitwiseAndStage(left, right, parameters))
BitwiseXORStage == Call("^", bitwiseXORStage(left, right, parameters))
LeftShiftStage == Call("<<", leftShiftStage(left, right, parameters))
RightShiftStage == Call(">>", rightShiftStage(left, right, parameters))
NegateStage == Call("negate", negateStage(left, right, parameters))
InvertStage == Call("invert", invertStage(left, right, parameters))
BitwiseNotStage == Call("bitwiseNot", bitwiseNotStage(left, right, parameters))
RegexStage == Call("=~", regexStage(left, right, parameters))
NotRegexStage == Call("!~", notRegexStage(left, right, parameters))
SeparatorStage == Call(",", separatorStage(left, right, parameters))
InStage == Call("in", inStage(left, right, parameters))
TernaryIfStage ==
    \E params \in KernelParams : CallWith("?", params, ternaryIfStage(left, right, params))
TernaryElseStage ==
    \E params \in KernelParams : CallWith(":", params, ternaryElseStage(left, right, params))

NextKernel ==
    \/ AddStage \/ SubtractStage \/ MultiplyStage \/ DivideStage
    \/ ExponentStage \/ ModulusStage
    \/ GteStage \/ GtStage \/ LteStage \/ LtStage
    \/ EqualStage \/ NotEqualStage
    \/ AndStage \/ OrStage
    \/ BitwiseOrStage \/ BitwiseAndStage \/ BitwiseXORStage
    \/ LeftShiftStage \/ RightShiftStage
    \/ NegateStage \/ InvertStage \/ BitwiseNotStage
    \/ RegexStage \/ NotRegexStage
    \/ SeparatorStage \/ InStage
    \/ TernaryIfStage \/ TernaryElseStage

SpecKernel == InitKernel /\ [][NextKernel]_vars

\* ---------------------------------------------------------------- claims: the broadcasting matrix

IsVec(value) == value.t \in {"numvec", "boolvec"}
VLen(value) == IF IsVec(value) THEN Len(value.v) ELSE 0
Longest(l, r) == IF VLen(l) >= VLen(r) THEN VLen(l) ELSE VLen(r)
\* Lane i of an operand: a scalar is broadcast.
LaneOf(value, i) == IF IsVec(value) THEN value.v[i] ELSE value.v
Returned == ret.err = NoErr /\ ~ret.panic
Failed == ret.err # NoErr /\ ~ret.panic /\ ret.val = Nil

\* C1: for every binary numeric kernel, a vector and a scalar (in either
\* order) or two vectors of equal length give a vector of the operands'
\* length whose lane i is the operation on lane i of the operands, the
\* scalar broadcast; a result vector is as long as the longest vector operand.
C1_BroadcastingLaw ==
    (pc = "done" /\ op \in NumericSymbols) =>
        /\ ( /\ isFloat32(left) /\ isFloat32(right)
             /\ IsVec(left) \/ IsVec(right)
             /\ (IsVec(left) /\ IsVec(right)) => Len(left.v) = Len(right.v) )
           => /\ Returned
              /\ ret.val.t = VecT(OutT(op))
              /\ Len(ret.val.v) = Longest(left, right)
              /\ \A i \in 1..Longest(left, right) :
                    ret.val.v[i] = LaneOp(op, LaneOf(left, i), LaneOf(right, i))
        /\ (Returned /\ IsVec(ret.val)) =>
              /\ IsVec(left) \/ IsVec(right)
              /\ Len(ret.val.v) = Longest(left, right)

C1_Witness ==
    /\ pc = "done"
    /\ op = "-"
    /\ left = Num(Fin(1))
    /\ right = NumVec(<<Fin(0), Fin(1)>>)
    /\ ret = Ok(NumVec(<<Fin(1), Fin(0)>>))

\* The kernels that accept two vectors.
TwoVectorSymbols == NumericSymbols \cup LogicalSymbols \cup {"?", ":"}
\* The vector types a kernel asserts for its left and its right operand.
LeftVecT(sym) ==
    IF sym \in LogicalSymbols \cup {"?"} THEN "boolvec" ELSE "numvec"
RightVecT(sym) == IF sym \in LogicalSymbols THEN "boolvec" ELSE "numvec"
UnequalVectors(sym) ==
    /\ left.t = LeftVecT(sym)
    /\ right.t = RightVecT(sym)
    /\ Len(left.v) # Len(right.v)
WellFormedNoData(params) ==
    "nodata" \in DOMAIN params => params["nodata"].t = "num"

\* C2 as stated: every kernel that accepts two vectors returns, for two
\* vectors of unequal lengths, an error reporting both lengths and no value.
C2_Original ==
    (pc = "done" /\ op \in TwoVectorSymbols /\ UnequalVectors(op)) =>
        ret = Err(differentArraySizes(Len(left.v), Len(right.v)))

\* C2, amended: two vectors of unequal lengths always give an error and no
\* value; the error reports both lengths, except that a ternary kernel
\* whose nodata parameter is not a float32 returns the nodata error.
C2_ShapeError ==
    (pc = "done" /\ op \in TwoVectorSymbols /\ UnequalVectors(op)) =>
        /\ Failed
        /\ (op \in {"?", ":"} => WellFormedNoData(parameters))
              => ret.err = differentArraySizes(Len(left.v), Len(right.v))
        /\ (op \in {"?", ":"} /\ ~WellFormedNoData(parameters))
              => ret.err = getNoData(parameters).err

C2_Witness ==
    /\ pc = "done"
    /\ op = "&&"
    /\ left = BoolVec(<<TRUE>>)
    /\ right = BoolVec(<<TRUE, FALSE>>)
    /\ ret = Err("different array sizes: 1, 2")

\* ---------------------------------------------------------------- claims: nodata, concatenation, regex

DefaultNoData == ("nodata" :> Num(SmallestNonzeroFloat32))
TernaryKernel(sym, l, r, params) ==
    IF sym = "?" THEN ternaryIfStage(l, r, params) ELSE ternaryElseStage(l, r, params)

\* C6: a ternary kernel given no nodata parameter behaves as with nodata
\* bound to the default sentinel; given a float32 nodata it uses that value
\* as the sentinel (ternary-if puts it in every false lane, ternary-else
\* replaces exactly the lanes equal to it); given a nodata that is not a
\* float32 it returns the nodata error and no value, whatever the operands.
C6_NoData ==
    (pc = "done" /\ op \in {"?", ":"}) =>
        /\ "nodata" \notin DOMAIN parameters =>
              ret = TernaryKernel(op, left, right, DefaultNoData)
        /\ ("nodata" \in DOMAIN parameters /\ parameters["nodata"].t = "num") =>
              LET noData == parameters["nodata"].v IN
              /\ (op = "?" /\ Returned) =>
                    \A i \in 1..(IF IsVec(ret.val) THEN Len(ret.val.v) ELSE 1) :
                        ~LaneOf(left, i) => LaneOf(ret.val, i) = noData
              /\ (op = ":" /\ Returned /\ left.t = "numvec") =>
                    \A i \in 1..Len(left.v) :
                        ret.val.v[i] = IF FEq(left.v[i], noData)
                                       THEN LaneOf(right, i) ELSE left.v[i]
        /\ ("nodata" \in DOMAIN parameters /\ parameters["nodata"].t # "num") =>
              /\ Failed
              /\ ret.err = "invalid nodata value: " \o Render(parameters["nodata"])

C6_Witness ==
    /\ pc = "done"
    /\ op = "?"
    /\ "nodata" \notin DOMAIN parameters
    /\ left = Bool(FALSE)
    /\ right = Num(Fin(1))
    /\ ret = Ok(Num(SmallestNonzeroFloat32))

\* C7: the addition kernel returns the string made of the renderings of
\* left and right whenever at least one operand is a string, whatever the
\* other operand is, and never an error then; with no string operand it
\* follows the numeric broadcasting matrix.
C7_Concatenation ==
    (pc = "done" /\ op = "+") =>
        IF left.t = "str" \/ right.t = "str"
        THEN ret = Ok(Str(Render(left) \o Render(right)))
        ELSE IF ~isFloat32(left) \/ ~isFloat32(right)
        THEN ret = Err("invalid operand for addition")
        ELSE IF IsVec(left) /\ IsVec(right) /\ Len(left.v) # Len(right.v)
        THEN ret = Err(differentArraySizes(Len(left.v), Len(right.v)))
        ELSE IF IsVec(left) \/ IsVec(right)
        THEN ret = Ok(NumVec([i \in 1..Longest(left, right) |->
                        FAdd(LaneOf(left, i), LaneOf(right, i))]))
        ELSE ret = Ok(Num(FAdd(left.v, right.v)))

C7_Witness ==
    /\ pc = "done"
    /\ op = "+"
    /\ left = NumVec(<<Fin(1), Fin(0)>>)
    /\ right = Str("a")
    /\ ret = Ok(Str("[1 0]a"))

\* C10: for a string left and a right that is a string pattern or a
\* compiled regex: when the pattern compiles, not-match returns the negation
\* of what match returns for the same operands; when a string pattern does
\* not compile, both return an error and no value.
C10_RegexNegation ==
    (pc = "done" /\ op \in {"=~", "!~"} /\ left.t = "str" /\ right.t \in {"str", "regex"}) =>
        LET match == regexStage(left, right, parameters)
            notMatch == notRegexStage(left, right, parameters)
            compiles == right.t = "regex" \/ regexpCompiles(right.v)
        IN  /\ ret = (IF op = "=~" THEN match ELSE notMatch)
            /\ compiles =>
                  /\ Returned /\ ret.val.t = "bool"
                  /\ match.err = NoErr /\ ~match.panic
                  /\ notMatch.err = NoErr /\ ~notMatch.panic
                  /\ notMatch.val = Bool(~match.val.v)
                  /\ match.val = Bool(regexpMatch(right.v, left.v))
            /\ ~compiles =>
                  /\ Failed
                  /\ match.err # NoErr /\ match.val = Nil
                  /\ notMatch.err # NoErr /\ notMatch.val = Nil

C10_Witness ==
    /\ pc = "done"
    /\ op = "!~"
    /\ left = Str("ab")
    /\ right = Str("a")
    /\ ret = Ok(Bool(FALSE))

\* ---------------------------------------------------------------- lists: separator and membership

ListElems ==
    {Num(Fin(0)), Num(Fin(1)), Num(NaN), Str("a"), Nil, NumVec(<<Fin(0)>>)}
Lists == {List(s) : s \in Seqs(ListElems, MaxListLen)}
ListOperands ==
    Lists \cup ListElems
        \cup {Bool(TRUE), BoolVec(<<TRUE>>), Regex("a"), List(<<List(<<>>)>>)}

InitList ==
    /\ left \in ListOperands
    /\ right \in ListOperands
    /\ alt = Nil
    /\ parameters = NoParams
    /\ stage = NoStage
    /\ op = "none"
    /\ mid = NoRet
    /\ ret = NoRet
    /\ calls = <<>>
    /\ pc = "ready"

NextList == SeparatorStage \/ InStage

SpecList == InitList /\ [][NextList]_vars

\* Value equality of two values: the same variant and the same content,
\* floats compared as floats, lane by lane and element by element.
RECURSIVE ValueEqual(_, _)
ValueEqual(a, b) ==
    /\ a.t = b.t
    /\ CASE a.t = "num" -> FEq(a.v, b.v)
         [] a.t = "numvec" ->
               /\ Len(a.v) = Len(b.v)
               /\ \A i \in 1..Len(a.v) : FEq(a.v[i], b.v[i])
         [] a.t = "list" ->
               /\ Len(a.v) = Len(b.v)
               /\ \A i \in 1..Len(a.v) : ValueEqual(a.v[i], b.v[i])
         [] OTHER -> a.v = b.v

\* C8 as stated: for every left and every right list the membership kernel
\* returns true when left is value-equal to an element of the list and
\* false otherwise; it always returns a value and never aborts.
C8_Membership ==
    (pc = "done" /\ op = "in" /\ right.t = "list") =>
        /\ ~ret.panic
        /\ ret = Ok(Bool(\E i \in 1..Len(right.v) : ValueEqual(left, right.v[i])))

\* What holds of the code: the kernel aborts exactly when it meets an
\* element of left's own slice type before an element equal to left.
C8_AbortsOnSlices ==
    (pc = "done" /\ op = "in" /\ right.t = "list") =>
        LET hit(i) == ifaceEqual(left, right.v[i])
            bad(i) == Uncomparable(left, right.v[i])
            first(P(_)) == \E i \in 1..Len(right.v) :
                              P(i) /\ \A j \in 1..(i - 1) : ~hit(j) /\ ~bad(j)
        IN  /\ ret.panic <=> first(bad)
            /\ ~ret.panic => ret = Ok(Bool(first(hit)))

\* C9: the separator kernel returns, for a left list of k elements, the
\* list of k + 1 elements that is left followed by right, and for any other
\* left the list of left and right; it never returns an error.
C9_Separator ==
    (pc = "done" /\ op = ",") =>
        /\ Returned
        /\ ret.val.t = "list"
        /\ IF left.t = "list"
           THEN /\ Len(ret.val.v) = Len(left.v) + 1
                /\ \A i \in 1..Len(left.v) : ret.val.v[i] = left.v[i]
                /\ ret.val.v[Len(left.v) + 1] = right
           ELSE ret.val.v = <<left, right>>

C9_Witness ==
    /\ pc = "done"
    /\ op = ","
    /\ left = List(<<Num(Fin(0)), Str("a")>>)
    /\ right = Nil
    /\ ret = Ok(List(<<Num(Fin(0)), Str("a"), Nil>>))

\* ---------------------------------------------------------------- cond ? a : b, kernel after kernel

TernaryLanes == {Fin(0), Fin(1), SmallestNonzeroFloat32}
TernaryNums ==
    {Num(f) : f \in TernaryLanes} \cup {NumVec(s) : s \in Seqs(TernaryLanes, MaxLen)}
TernaryParams ==
    {NoParams} \cup {("nodata" :> Num(f)) : f \in {Fin(0), Fin(1), NaN}}

InitTernary ==
    /\ left \in Bools \cup BoolVecs
    /\ right \in TernaryNums
    /\ alt \in TernaryNums
    /\ parameters \in TernaryParams
    /\ stage = NoStage
    /\ op = "none"
    /\ mid = NoRet
    /\ ret = NoRet
    /\ calls = <<>>
    /\ pc = "ready"

\* cond ? a: the ternary-if kernel on the condition and a.
TernaryIf ==
    /\ pc = "ready"
    /\ mid' = ternaryIfStage(left, right, parameters)
    /\ op' = "?"
    /\ pc' = "if"
    /\ UNCHANGED <<left, right, alt, parameters, stage, ret, calls>>

\* ... : b: the ternary-else kernel on the value of ternary-if and b; an
\* error of ternary-if is the result.
TernaryElse ==
    /\ pc = "if"
    /\ ret' = IF mid.err # NoErr THEN mid
              ELSE ternaryElseStage(mid.val, alt, parameters)
    /\ op' = "?:"
    /\ pc' = "done"
    /\ UNCHANGED <<left, right, alt, parameters, stage, mid, calls>>

NextTernary == TernaryIf \/ TernaryElse

SpecTernary == InitTernary /\ [][NextTernary]_vars

\* The vectors among cond, a and b have one length.
SameLengths ==
    \A x, y \in {left, right, alt} : (IsVec(x) /\ IsVec(y)) => Len(x.v) = Len(y.v)
AnyVec == IsVec(left) \/ IsVec(right) \/ IsVec(alt)
Lanes == IF IsVec(left) THEN Len(left.v)
         ELSE IF IsVec(right) THEN Len(right.v)
         ELSE IF IsVec(alt) THEN Len(alt.v)
         ELSE 1
NoDataOf(params) == getNoData(params).noData

\* C3 as stated: cond ? a : b is, lane by lane, the lane of a where cond is
\* true and the lane of b where cond is false, for every combination of
\* shapes and every value of the lanes of a (here for every sentinel that
\* is a number, the default one included).
C3_Original ==
    (pc = "done" /\ op = "?:" /\ SameLengths /\ NoDataOf(parameters) # NaN) =>
        /\ Returned
        /\ IsVec(ret.val) <=> AnyVec
        /\ IsVec(ret.val) => Len(ret.val.v) = Lanes
        /\ \A i \in 1..Lanes :
              LaneOf(ret.val, i) =
                  IF LaneOf(left, i) THEN LaneOf(right, i) ELSE LaneOf(alt, i)

\* C3, amended: a lane where cond is true is the lane of a unless that lane
\* of a equals the sentinel, and then it is the lane of b; a lane where cond
\* is false is the lane of b unless the sentinel is NaN, and then it is NaN.
C3_TernaryIdentity ==
    (pc = "done" /\ op = "?:" /\ SameLengths) =>
        /\ Returned
        /\ IsVec(ret.val) <=> AnyVec
        /\ IsVec(ret.val) => Len(ret.val.v) = Lanes
        /\ \A i \in 1..Lanes :
              LaneOf(ret.val, i) =
                  IF LaneOf(left, i)
                  THEN (IF FEq(LaneOf(right, i), NoDataOf(parameters))
                        THEN LaneOf(alt, i) ELSE LaneOf(right, i))
                  ELSE (IF NoDataOf(parameters) = NaN
                        THEN NaN ELSE LaneOf(alt, i))

C3_Witness ==
    /\ pc = "done"
    /\ op = "?:"
    /\ left = BoolVec(<<TRUE, FALSE>>)
    /\ right = Num(Fin(1))
    /\ alt = NumVec(<<Fin(0), Fin(0)>>)
    /\ parameters = NoParams
    /\ ret = Ok(NumVec(<<Fin(1), Fin(0)>>))

\* ---------------------------------------------------------------- the driver

\* Stage trees: a short-circuit operator over a literal and the parameter
\* b, and cond ? a : b with a literal condition and the parameters a and b.
DriverLiterals ==
    {Bool(TRUE), Bool(FALSE), BoolVec(<<>>), BoolVec(<<TRUE, FALSE>>),
     BoolVec(<<FALSE, FALSE>>), Nil, Num(Fin(1))}
DriverStages ==
    {Stage(symbol, Literal(value), Parameter("b")) :
        symbol \in {"AND", "OR", "COALESCE", "TERNARY_TRUE", "TERNARY_FALSE"},
        value \in DriverLiterals}
    \cup
    {Stage("TERNARY_FALSE",
           Stage("TERNARY_TRUE", Literal(value), Parameter("a")),
           Parameter("b")) : value \in DriverLiterals}

DriverValues ==
    {Bool(TRUE), Bool(FALSE), BoolVec(<<TRUE, FALSE>>),
     Num(Fin(0)), Num(Fin(1)), NumVec(<<Fin(1), Fin(0)>>)}
DriverNoData == {Num(Fin(0)), Num(Fin(1)), Num(SmallestNonzeroFloat32), Str("a")}
DriverNames == {{"a", "b"}, {"a"}, {"b"}, {"a", "b", "nodata"}, {"b", "nodata"}}
DriverParams ==
    UNION {{params \in [names -> DriverValues \cup DriverNoData] :
               /\ \A name \in names \ {"nodata"} : params[name] \in DriverValues
               /\ "nodata" \in names => params["nodata"] \in DriverNoData} :
           names \in DriverNames}

InitDriver ==
    /\ left = Nil
    /\ right = Nil
    /\ alt = Nil
    /\ parameters \in DriverParams
    /\ stage \in DriverStages
    /\ op = "none"
    /\ mid = NoRet
    /\ ret = NoRet
    /\ calls = <<>>
    /\ pc = "ready"

\* One evaluation of the stage tree.
Evaluate ==
    /\ pc = "ready"
    /\ LET got == evaluateStage(stage, parameters, <<>>) IN
       /\ ret' = got.ret
       /\ calls' = got.calls
    /\ op' = "evaluate"
    /\ pc' = "done"
    /\ UNCHANGED <<left, right, alt, parameters, stage, mid>>

NextDriver == Evaluate

SpecDriver == InitDriver /\ [][NextDriver]_vars

\* ---------------------------------------------------------------- claims: short-circuit

LogicalKernel(symbol, l, r, params) ==
    IF symbol = "AND" THEN andStage(l, r, params) ELSE orStage(l, r, params)

C5_TernaryFallback ==
    (pc = "done" /\ op = "evaluate" /\ stage.symbol = "TERNARY_FALSE") =>
        /\ ( /\ stage.leftStage.symbol = "TERNARY_TRUE"
             /\ stage.leftStage.leftStage.arg.t = "bool"
             /\ stage.leftStage.leftStage.arg.v = FALSE
             /\ "b" \in DOMAIN parameters
             /\ isFloat32(parameters["b"])
             /\ WellFormedNoData(parameters) )
           => ret = Ok(parameters["b"]) /\ calls = <<"b">>
        /\ (stage.leftStage.symbol = "LITERAL" /\ stage.leftStage.arg.t # "nil")
           => ret = Ok(stage.leftStage.arg) /\ calls = <<>>

\* What holds of the code there: the alternative is returned only when
\* nodata is the zero float32, and the kernel's operand error otherwise.
C5_FallbackOnlyForZero ==
    ( /\ pc = "done" /\ op = "evaluate" /\ stage.symbol = "TERNARY_FALSE"
      /\ stage.leftStage.symbol = "TERNARY_TRUE"
      /\ stage.leftStage.leftStage.arg.t = "bool"
      /\ stage.leftStage.leftStage.arg.v = FALSE
      /\ "b" \in DOMAIN parameters
      /\ isFloat32(parameters["b"])
      /\ WellFormedNoData(parameters) )
    => /\ calls = <<"b">>
       /\ ret = IF NoDataOf(parameters) = Fin(0)
                THEN Ok(parameters["b"])
                ELSE Err("invalid operand for ternary else")

\* ---------------------------------------------------------------- canonicalization (sanitizedParameters.go)

\* A value of a Go numeric kind other than float32: t is the kind
\* ("uint8" ... "int", "uint", "float64"), v the number; a slice of the kind
\* has t = "[]" \o kind.  An integer is a TLA+ integer; a float64 is a
\* record like a float32, with "huge" a finite float64 above the float32
\* range and "under" a positive float64 below it.
Raw(kind, n) == [t |-> kind, v |-> n]
SliceOf(kind) == "[]" \o kind
RawVec(kind, s) == [t |-> SliceOf(kind), v |-> s]
Huge64 == [k |-> "huge", n |-> 0]
Under64 == [k |-> "under", n |-> 0]

\* float32(n) of an integer n: the nearest float32 (24 bits of mantissa),
\* ties to even.
RECURSIVE Ulp(_, _)
Ulp(m, u) == IF m < 16777216 THEN u ELSE Ulp(m \div 2, 2 * u)

Float32OfInt(n) ==
    LET a == Abs(n)
        u == Ulp(a, 1)
        q == a \div u
        r == a % u
        m == IF 2 * r < u THEN q
             ELSE IF 2 * r > u THEN q + 1
             ELSE IF q % 2 = 0 THEN q ELSE q + 1
    IN  Fin(Sgn(n) * m * u)

\* float32(d) of a float64 d.
Float32OfFloat64(d) ==
    CASE d.k = "fin" -> Float32OfInt(d.n)
      [] d.k = "huge" -> PInf
      [] d.k = "under" -> Fin(0)
      [] OTHER -> d

\* castToFloat32 that also turns a float32 into a float64.
castToFloat32Toggling(value) ==
    CASE value.t \in {"uint8", "uint16", "uint32", "uint64",
                      "int8", "int16", "int32", "int64", "int"} ->
             Num(Float32OfInt(value.v))
      [] value.t = "float64" -> Num(Float32OfFloat64(value.v))
      [] value.t = "num" -> Raw("float64", value.v)
      [] OTHER -> value

castToFloat32(value) ==
    CASE value.t = "uint8" -> Num(Float32OfInt(value.v))
      [] value.t = "uint16" -> Num(Float32OfInt(value.v))
      [] value.t = "uint32" -> Num(Float32OfInt(value.v))
      [] value.t = "uint64" -> Num(Float32OfInt(value.v))
      [] value.t = "int8" -> Num(Float32OfInt(value.v))
      [] value.t = "int16" -> Num(Float32OfInt(value.v))
      [] value.t = "int32" -> Num(Float32OfInt(value.v))
      [] value.t = "int64" -> Num(Float32OfInt(value.v))
      [] value.t = "int" -> Num(Float32OfInt(value.v))
      [] value.t = "float64" -> Num(Float32OfFloat64(value.v))
      [] value.t = "[]uint8" ->
             NumVec([i \in 1..Len(value.v) |-> Float32OfInt(value.v[i])])
      [] value.t = "[]uint16" ->
             NumVec([i \in 1..Len(value.v) |-> Float32OfInt(value.v[i])])
      [] value.t = "[]uint32" ->
             NumVec([i \in 1..Len(value.v) |-> Float32OfInt(value.v[i])])
      [] value.t = "[]uint64" ->
             NumVec([i \in 1..Len(value.v) |-> Float32OfInt(value.v[i])])
      [] value.t = "[]int8" ->
             NumVec([i \in 1..Len(value.v) |-> Float32OfInt(value.v[i])])
      [] value.t = "[]int16" ->
             NumVec([i \in 1..Len(value.v) |-> Float32OfInt(value.v[i])])
      [] value.t = "[]int32" ->
             NumVec([i \in 1..Len(value.v) |-> Float32OfInt(value.v[i])])
      [] value.t = "[]int64" ->
             NumVec([i \in 1..Len(value.v) |-> Float32OfInt(value.v[i])])
      [] value.t = "[]int" ->
             NumVec([i \in 1..Len(value.v) |-> Float32OfInt(value.v[i])])
      [] value.t = "[]float64" ->
             NumVec([i \in 1..Len(value.v) |-> Float32OfFloat64(value.v[i])])
      [] OTHER -> value

\* sanitizedParameters.Get: the wrapped source's value, canonicalized; the
\* wrapped source's error as it is.
sanitizedGet(params, key) ==
    LET got == Get(params, key) IN
    IF got.err # NoErr THEN Err(got.err) ELSE Ok(castToFloat32(got.val))

HandledKinds ==
    {"uint8", "uint16", "uint32", "uint64", "int8", "int16", "int32", "int64", "int"}
UnsignedKinds == {"uint8", "uint16", "uint32", "uint64", "uint"}
IntegerKinds == HandledKinds \cup {"uint"}

\* 16777217 = 2^24 + 1 is the first integer that is not a float32.
RawInts(kind) ==
    IF kind \in {"uint8", "int8"} THEN {0, 1}
    ELSE {0, 1, 16777217} \cup (IF kind \in UnsignedKinds THEN {} ELSE {-16777219})
RawLanes(kind) == IF kind \in UnsignedKinds THEN {0, 1} ELSE {0, -1}
Float64s == {Fin(0), Fin(16777217), NaN, NInf, Huge64, Under64}
Float64Lanes == {Fin(1), Huge64}

RawValues ==
    UNION {{Raw(kind, n) : n \in RawInts(kind)} : kind \in IntegerKinds}
        \cup UNION {{RawVec(kind, s) : s \in Seqs(RawLanes(kind), MaxLen)} : kind \in IntegerKinds}
        \cup {Raw("float64", d) : d \in Float64s}
        \cup {RawVec("float64", s) : s \in Seqs(Float64Lanes, MaxLen)}

CastInputs ==
    RawValues \cup Nums \cup {NumVec(s) : s \in Seqs({Fin(1), NaN}, MaxLen)}
        \cup Bools \cup {BoolVec(<<TRUE>>), Str("a"), Nil}
        \cup {List(<<>>), List(<<Raw("int", 1)>>)}

InitCast ==
    /\ left = Nil
    /\ right = Nil
    /\ alt = Nil
    /\ parameters \in {NoParams} \cup {("x" :> value) : value \in CastInputs}
    /\ stage = NoStage
    /\ op = "none"
    /\ mid = NoRet
    /\ ret = NoRet
    /\ calls = <<>>
    /\ pc = "ready"

\* The engine reads the parameter x through the canonicalizing wrapper.
SanitizedGet ==
    /\ pc = "ready"
    /\ mid' = sanitizedGet(parameters, "x")
    /\ op' = "Get"
    /\ pc' = "got"
    /\ UNCHANGED <<left, right, alt, parameters, stage, ret, calls>>

\* castToFloat32 applied to a value that was canonicalized already.
CastToFloat32 ==
    /\ pc = "got"
    /\ mid.err = NoErr
    /\ ret' = Ok(castToFloat32(mid.val))
    /\ op' = "castToFloat32"
    /\ pc' = "done"
    /\ UNCHANGED <<left, right, alt, parameters, stage, mid, calls>>

NextCast == SanitizedGet \/ CastToFloat32

SpecCast == InitCast /\ [][NextCast]_vars

IsScalarOf(value, kinds) == value.t \in kinds
IsSliceOf(value, kinds) == value.t \in {SliceOf(kind) : kind \in kinds}
LaneToFloat32(t, x) ==
    IF t \in {"float64", SliceOf("float64")} THEN Float32OfFloat64(x) ELSE Float32OfInt(x)

\* What the claim says canonicalization returns for the value x, the
\* integer kinds being those of the set kinds.
Canonical(x, kinds) ==
    IF IsScalarOf(x, kinds \cup {"float64"})
    THEN Num(LaneToFloat32(x.t, x.v))
    ELSE IF IsSliceOf(x, kinds \cup {"float64"})
    THEN NumVec([i \in 1..Len(x.v) |-> LaneToFloat32(x.t, x.v[i])])
    ELSE x

\* C11 as stated: canonicalization maps a scalar of every integer kind
\* (signed and unsigned, every width, the platform-width int and uint
\* included) and every float64 to a Num, a sequence of such a kind to a
\* NumVec of the same length with the lanes converted in order, and returns
\* every other value unchanged.
C11_Canonicalization ==
    (pc = "got" /\ "x" \in DOMAIN parameters) =>
        mid = Ok(Canonical(parameters["x"], IntegerKinds))

\* What holds of the code: the same, for the integer kinds other than uint.
C11_AllButUint ==
    (pc = "got" /\ "x" \in DOMAIN parameters) =>
        mid = Ok(Canonical(parameters["x"], HandledKinds))

\* C12: canonicalization is idempotent: castToFloat32(castToFloat32(x))
\* equals castToFloat32(x) for every value x.
C12_Idempotent ==
    (pc = "done" /\ op = "castToFloat32") => ret = mid

C12_Witness ==
    /\ pc = "done"
    /\ op = "castToFloat32"
    /\ parameters = ("x" :> Raw("int32", 16777217))
    /\ mid = Ok(Num(Fin(16777216)))
    /\ ret = mid

\* ---------------------------------------------------------------- the reflective accessor

\* A host object is a struct, or a pointer to one (ptr), with named
\* members.  A member is an exported field, an unexported field or a
\* method; a method has a receiver ("value" or "pointer"), the kinds of its
\* parameters, and an outcome: the values it returns, or a panic whose value
\* is a string or something else.
Obj(ptr, members) == [t |-> "obj", v |-> [ptr |-> ptr, members |-> members]]
NilPtr == [t |-> "nilptr", v |-> 0]
Error(msg) == [t |-> "error", v |-> msg]

Returns(values) == [kind |-> "returns", values |-> values, msg |-> ""]
PanicsWith(kind, msg) == [kind |-> kind, values |-> <<>>, msg |-> msg]
NoOutcome == Returns(<<>>)

Field(value) ==
    [m |-> "field", value |-> value, recv |-> "value", ins |-> <<>>, out |-> NoOutcome]
Unexported(value) ==
    [m |-> "unexported", value |-> value, recv |-> "value", ins |-> <<>>, out |-> NoOutcome]
Method(recv, ins, out) ==
    [m |-> "method", value |-> Nil, recv |-> recv, ins |-> ins, out |-> out]

\* What runs inside the accessor's loop: a (value, error) pair that is
\* returned, or a panic that is raised with a value of some kind.
Return(result) == [raised |-> "no", msg |-> "", result |-> result]
Raise(kind, msg) == [raised |-> kind, msg |-> msg, result |-> Panic]

\* strings.Join(pair, ".")
RECURSIVE Join(_, _)
Join(pair, i) ==
    IF i > Len(pair) THEN ""
    ELSE IF i = Len(pair) THEN pair[i]
    ELSE pair[i] \o "." \o Join(pair, i + 1)

\* reflect.Kind of a value, as Kind.String() prints it.
KindOf(value) ==
    CASE value.t = "num" -> "float32"
      [] value.t = "str" -> "string"
      [] value.t = "bool" -> "bool"
      [] value.t \in {"numvec", "boolvec", "list"} -> "slice"
      [] value.t = "obj" -> IF value.v.ptr THEN "ptr" ELSE "struct"
      [] value.t = "nilptr" -> "ptr"
      [] value.t = "nil" -> "invalid"
      [] OTHER -> value.t

NumericKinds == {"float32", "float64", "int", "uint"}

\* typeConvertParam: Value.Convert panics unless the conversion exists, and
\* the panic is recovered into an error.
typeConvertParam(p, t) ==
    IF KindOf(p) \in NumericKinds /\ t \in NumericKinds
    THEN NoErr
    ELSE "Argument type conversion failed: failed to convert '"
             \o KindOf(p) \o "' to '" \o t \o "'"

\* The loop of typeConvertParams over the parameters from index i: p.Type()
\* of the zero reflect.Value (a nil argument) panics with a *ValueError.
RECURSIVE convertFrom(_, _, _)
convertFrom(ins, params, i) ==
    IF i > Len(ins) THEN Return(Ok(Nil))
    ELSE IF params[i].t = "nil"
    THEN Raise("other", "reflect: call of reflect.Value.Type on zero Value")
    ELSE IF ins[i] # KindOf(params[i]) /\ typeConvertParam(params[i], ins[i]) # NoErr
    THEN Return(Err(typeConvertParam(params[i], ins[i])))
    ELSE convertFrom(ins, params, i + 1)

typeConvertParams(method, params) ==
    LET numIn == Len(method.ins)
        numParams == Len(params)
    IN  IF numIn # numParams
        THEN IF numIn > numParams
             THEN Return(Err("Too few arguments to parameter call: got "
                                 \o ToString(numParams) \o " arguments, expected "
                                 \o ToString(numIn)))
             ELSE Return(Err("Too many arguments to parameter call: got "
                                 \o ToString(numParams) \o " arguments, expected "
                                 \o ToString(numIn)))
        ELSE convertFrom(method.ins, params, 1)

\* The arguments of the call, from the stage's right value.
givenParams(r) ==
    IF r.t = "list" THEN r.v ELSE IF r.t = "nil" THEN <<>> ELSE <<r>>

\* MethodByName on the struct, then on the pointer to it.
hasMethod(value, name) ==
    /\ name \in DOMAIN value.v.members
    /\ value.v.members[name].m = "method"
    /\ (value.v.members[name].recv = "value" \/ value.v.ptr)

\* The accessor's loop with a method call that takes every returned tuple
\* of two as a value and a nil error.
RECURSIVE walkIgnoringError(_, _, _, _)
walkIgnoringError(value, pair, i, r) ==
    IF i > Len(pair) THEN Return(Ok(castToFloat32(value)))
    ELSE IF value.t # "obj"
    THEN Return(Err("Unable to access '" \o pair[i] \o "', '" \o pair[i - 1]
                        \o "' is not a struct"))
    ELSE IF pair[i] \in DOMAIN value.v.members /\ value.v.members[pair[i]].m = "field"
    THEN walkIgnoringError(value.v.members[pair[i]].value, pair, i + 1, r)
    ELSE IF ~hasMethod(value, pair[i])
    THEN Return(Err("No method or field '" \o pair[i] \o "' present on parameter '"
                        \o pair[i - 1] \o "'"))
    ELSE LET method == value.v.members[pair[i]]
             returned == method.out.values
         IN  IF method.out.kind # "returns"
             THEN Raise(method.out.kind, method.out.msg)
             ELSE IF Len(returned) \in {1, 2}
             THEN walkIgnoringError(returned[1], pair, i + 1, r)
             ELSE Return(Err("Cannot interpret meaning."))

\* The accessor's loop from segment i, value being what the path resolved
\* to so far.
RECURSIVE walk(_, _, _, _)
walk(value, pair, i, r) ==
    IF i > Len(pair) THEN Return(Ok(castToFloat32(value)))
    ELSE IF value.t # "obj"
    THEN Return(Err("Unable to access '" \o pair[i] \o "', '" \o pair[i - 1]
                        \o "' is not a struct"))
    ELSE IF pair[i] \in DOMAIN value.v.members /\ value.v.members[pair[i]].m = "field"
    THEN walk(value.v.members[pair[i]].value, pair, i + 1, r)
    ELSE IF pair[i] \in DOMAIN value.v.members /\ value.v.members[pair[i]].m = "unexported"
    THEN Raise("string", "reflect.Value.Interface: cannot return value obtained from unexported field or method")
    ELSE IF ~hasMethod(value, pair[i])
    THEN Return(Err("No method or field '" \o pair[i] \o "' present on parameter '"
                        \o pair[i - 1] \o "'"))
    ELSE LET method == value.v.members[pair[i]]
             converted == typeConvertParams(method, givenParams(r))
             returned == method.out.values
             retLength == Len(returned)
         IN  IF converted.raised # "no" THEN converted
             ELSE IF converted.result.err # NoErr
             THEN Return(Err("Method call failed - '" \o pair[1] \o "." \o pair[2]
                                 \o "': " \o converted.result.err))
             ELSE IF method.out.kind # "returns"
             THEN Raise(method.out.kind, method.out.msg)
             ELSE IF retLength = 0
             THEN Return(Err("Method call '" \o pair[i - 1] \o "." \o pair[i]
                                 \o "' did not return any values."))
             ELSE IF retLength = 1
             THEN walk(returned[1], pair, i + 1, r)
             ELSE IF retLength = 2
             THEN IF returned[2].t = "error"
                  THEN Return([val |-> returned[1], err |-> returned[2].v, panic |-> FALSE])
                  ELSE walk(returned[1], pair, i + 1, r)
             ELSE Return(Err("Method call '" \o pair[1] \o "." \o pair[2]
                                 \o "' did not return either one value, or a value and an error. Cannot interpret meaning."))

\* The deferred function: recover() and r.(string); the type assertion
\* panics in its turn when the recovered value is not a string.
recovered(outcome, reconstructed) ==
    IF outcome.raised = "no" THEN outcome.result
    ELSE IF outcome.raised = "string"
    THEN Err("Failed to access '" \o reconstructed \o "': " \o outcome.msg)
    ELSE Panic

makeAccessorStage(pair, l, r, params) ==
    LET reconstructed == Join(pair, 1)
        got == Get(params, pair[1])
    IN  IF got.err # NoErr THEN Err(got.err)
        ELSE recovered(walk(got.val, pair, 2, r), reconstructed)

\* ---------------------------------------------------------------- the accessor, one call

AccessorStage(pair) == [symbol |-> "ACCESSOR", pair |-> pair]

\* A host struct with an exported field F, an unexported field f and a
\* method M.
Host(ptr, recv, ins, out, fieldValue) ==
    Obj(ptr, [F |-> Field(fieldValue),
              f |-> Unexported(Num(Fin(0))),
              M |-> Method(recv, ins, out)])

LeafFails == Host(FALSE, "value", <<>>, Returns(<<Raw("int", 2), Error("leaf failed")>>), Str("a"))
LeafPanics == Host(TRUE, "pointer", <<>>, PanicsWith("other", "runtime error"), Raw("int", 3))

FirstValues == {Raw("int", 1), Nil, LeafFails}
ReturnTuples ==
    {<<>>} \cup {<<value>> : value \in FirstValues}
        \cup {<<value, Nil>> : value \in FirstValues}
        \cup {<<value, Error("failed")>> : value \in FirstValues}
        \cup {<<value, Str("a")>> : value \in FirstValues}
        \cup {<<value, Nil, Nil>> : value \in FirstValues}
Outcomes ==
    {Returns(values) : values \in ReturnTuples}
        \cup {PanicsWith("string", "boom"), PanicsWith("other", "runtime error")}

Hosts ==
    {Host(ptr, recv, ins, out, fieldValue) :
        ptr \in BOOLEAN, recv \in {"value", "pointer"}, ins \in {<<>>, <<"int">>},
        out \in Outcomes, fieldValue \in {Raw("int", 1), LeafPanics}}
Roots == Hosts \cup {Num(Fin(1)), NilPtr}

\* The call's arguments: none, one number, one string, a list of one nil.
Arguments == {Nil, Num(Fin(1)), Str("a"), List(<<Nil>>)}

\* Dotted paths from the parameter x; Z names no member.
Segments == {"F", "f", "M", "Z"}
Paths == {<<"x">> \o tail : tail \in Seqs(Segments, MaxPath - 1)}

InitAccessor ==
    /\ left = Nil
    /\ right \in Arguments
    /\ alt = Nil
    /\ parameters \in {NoParams} \cup {("x" :> root) : root \in Roots}
    /\ stage \in {AccessorStage(pair) : pair \in Paths}
    /\ op = "none"
    /\ mid = NoRet
    /\ ret = NoRet
    /\ calls = <<>>
    /\ pc = "ready"

Accessor ==
    /\ pc = "ready"
    /\ ret' = makeAccessorStage(stage.pair, left, right, parameters)
    /\ op' = "accessor"
    /\ pc' = "done"
    /\ UNCHANGED <<left, right, alt, parameters, stage, mid, calls>>

NextAccessor == Accessor

SpecAccessor == InitAccessor /\ [][NextAccessor]_vars

RootResolved == pc = "done" /\ op = "accessor" /\ "x" \in DOMAIN parameters
Walked == walk(parameters["x"], stage.pair, 2, right)
FailedToAccess(msg) ==
    Err("Failed to access '" \o Join(stage.pair, 1) \o "': " \o msg)

\* C13 as stated: once the root parameter is resolved, any panic raised
\* while walking the path, whatever the kind of the panic value, is caught
\* and turned into a returned error naming the dotted path, with a nil
\* result; no panic escapes the accessor kernel.
C13_PanicsRecovered ==
    RootResolved =>
        /\ ~ret.panic
        /\ Walked.raised # "no" => ret = FailedToAccess(Walked.msg)

\* What holds of the code: a panic whose value is a string is turned into
\* the error; a panic with any other value escapes.
C13_StringPanicsOnly ==
    RootResolved =>
        /\ ret.panic <=> Walked.raised = "other"
        /\ Walked.raised = "string" => ret = FailedToAccess(Walked.msg)

\* The value the path resolves to before segment i when the segments
\* before it are exported fields, Nil otherwise.
RECURSIVE FieldsTo(_, _, _, _)
FieldsTo(value, pair, j, i) ==
    IF j = i THEN value
    ELSE IF /\ value.t = "obj"
            /\ pair[j] \in DOMAIN value.v.members
            /\ value.v.members[pair[j]].m = "field"
    THEN FieldsTo(value.v.members[pair[j]].value, pair, j + 1, i)
    ELSE Nil

\* Segment i is a method call that goes through: the segments before it are
\* fields, segment i names a method, and the arguments are accepted.
CallsMethod(i) ==
    LET at == FieldsTo(parameters["x"], stage.pair, 2, i) IN
    /\ at.t = "obj"
    /\ hasMethod(at, stage.pair[i])
    /\ typeConvertParams(at.v.members[stage.pair[i]], givenParams(right)) = Return(Ok(Nil))
    /\ at.v.members[stage.pair[i]].out.kind = "returns"

ReturnedBy(i) ==
    FieldsTo(parameters["x"], stage.pair, 2, i).v.members[stage.pair[i]].out.values

ContinuesWith(value, i) ==
    ret = recovered(walk(value, stage.pair, i + 1, right), Join(stage.pair, 1))

\* C14: when a segment resolves to a method, a call returning one value
\* continues the walk with it; a call returning two values, the second a
\* non-nil error, stops the walk and returns that error with the first
\* value; a call returning two values, the second nil, continues with the
\* first; a call returning no value or more than two stops the walk with an
\* error and a nil value.
C14_MethodReturns ==
    RootResolved =>
        \A i \in 2..Len(stage.pair) :
            CallsMethod(i) =>
                LET returned == ReturnedBy(i) IN
                CASE Len(returned) = 1 -> ContinuesWith(returned[1], i)
                  [] Len(returned) = 2 /\ returned[2].t = "error" ->
                         ret = [val |-> returned[1], err |-> returned[2].v, panic |-> FALSE]
                  [] Len(returned) = 2 /\ returned[2].t = "nil" ->
                         ContinuesWith(returned[1], i)
                  [] Len(returned) = 0 \/ Len(returned) > 2 ->
                         /\ ret.err # NoErr
                         /\ ret.val = Nil
                         /\ ~ret.panic
                  [] OTHER -> TRUE

C14_Witness ==
    /\ RootResolved
    /\ stage.pair = <<"x", "M">>
    /\ CallsMethod(2)
    /\ ReturnedBy(2) = <<Raw("int", 1), Error("failed")>>
    /\ ret = [val |-> Raw("int", 1), err |-> "failed", panic |-> FALSE]

\* ---------------------------------------------------------------- swapWith

\* The stages of a tree live at addresses; leftStage and rightStage hold an
\* address or NoAddress (a nil pointer).  The operator and the type checks
\* are named by the function they point to ("nil" for none).
NoAddress == "nil"
Addresses == {"a", "b", "c"}

StageStruct(symbol, operator, leftCheck, rightCheck, check, format) ==
    [symbol |-> symbol, leftStage |-> NoAddress, rightStage |-> NoAddress,
     operator |-> operator, leftTypeCheck |-> leftCheck, rightTypeCheck |-> rightCheck,
     typeCheck |-> check, typeErrorFormat |-> format]

StageStructs ==
    {StageStruct("PLUS", "addStage", "nil", "nil", "additionTypeCheck", "modifierErrorFormat"),
     StageStruct("MINUS", "subtractStage", "isFloat32", "isFloat32", "nil", "modifierErrorFormat"),
     StageStruct("AND", "andStage", "isBool", "isBool", "nil", "logicalErrorFormat"),
     StageStruct("TERNARY_TRUE", "ternaryIfStage", "isBool", "nil", "nil", "ternaryErrorFormat")}

WithChildren(struct, l, r) == [struct EXCEPT !.leftStage = l, !.rightStage = r]

\* Trees over the three addresses: a over b and c, and the chain a, b, c.
Heaps ==
    {[a |-> WithChildren(x, "b", "c"), b |-> y, c |-> z] :
        x \in StageStructs, y \in StageStructs, z \in StageStructs}
    \cup
    {[a |-> WithChildren(x, NoAddress, "b"), b |-> WithChildren(y, NoAddress, "c"), c |-> z] :
        x \in StageStructs, y \in StageStructs, z \in StageStructs}

setToNonStage(heap, this, other) ==
    [heap EXCEPT ![this] =
        [@ EXCEPT !.symbol = other.symbol,
                  !.operator = other.operator,
                  !.leftTypeCheck = other.leftTypeCheck,
                  !.rightTypeCheck = other.rightTypeCheck,
                  !.typeCheck = other.typeCheck,
                  !.typeErrorFormat = other.typeErrorFormat]]

\* swapWith that reads *other after it was overwritten.
swapWithoutTemp(heap, this, other) ==
    LET afterOther == setToNonStage(heap, other, heap[this])
    IN  setToNonStage(afterOther, this, afterOther[other])

swapWith(heap, this, other) ==
    LET temp == heap[other]
        afterOther == setToNonStage(heap, other, heap[this])
    IN  setToNonStage(afterOther, this, temp)

InitSwap ==
    /\ left = Nil
    /\ right = Nil
    /\ alt = Nil
    /\ parameters = NoParams
    /\ stage \in Heaps
    /\ op = "none"
    /\ mid = NoRet
    /\ ret = NoRet
    /\ calls = <<>>
    /\ pc = "ready"

\* this.swapWith(other); calls records the pair and the stages before.
SwapWith ==
    /\ Len(calls) < MaxSwaps
    /\ \E this \in Addresses, other \in Addresses :
          /\ stage' = swapWith(stage, this, other)
          /\ calls' = Append(calls, [this |-> this, other |-> other, before |-> stage])
    /\ op' = "swapWith"
    /\ UNCHANGED <<left, right, alt, parameters, mid, ret, pc>>

NextSwap == SwapWith

SpecSwap == InitSwap /\ [][NextSwap]_vars

NonChild(struct) ==
    <<struct.symbol, struct.operator, struct.leftTypeCheck, struct.rightTypeCheck,
      struct.typeCheck, struct.typeErrorFormat>>
Children(struct) == <<struct.leftStage, struct.rightStage>>
LastSwap == calls[Len(calls)]
SamePair(c, d) == {c.this, c.other} = {d.this, d.other}

\* C15: after a.swapWith(b), a holds b's former symbol, operator,
\* leftTypeCheck, rightTypeCheck, typeCheck and typeErrorFormat and b holds
\* a's former ones, leftStage and rightStage of both are unchanged; swapWith
\* applied twice to the same pair restores both stages.
C15_SwapWith ==
    (op = "swapWith" /\ Len(calls) > 0) =>
        LET a == LastSwap.this
            b == LastSwap.other
            before == LastSwap.before
        IN  /\ NonChild(stage[a]) = NonChild(before[b])
            /\ NonChild(stage[b]) = NonChild(before[a])
            /\ Children(stage[a]) = Children(before[a])
            /\ Children(stage[b]) = Children(before[b])
            /\ (Len(calls) > 1 /\ SamePair(LastSwap, calls[Len(calls) - 1])) =>
                   /\ stage[a] = calls[Len(calls) - 1].before[a]
                   /\ stage[b] = calls[Len(calls) - 1].before[b]

C15_Witness ==
    /\ op = "swapWith"
    /\ Len(calls) = 2
    /\ calls[1].this = "a" /\ calls[1].other = "b"
    /\ calls[2].this = "a" /\ calls[2].other = "b"
    /\ NonChild(calls[1].before["a"]) # NonChild(calls[1].before["b"])
    /\ NonChild(calls[2].before["a"]) = NonChild(calls[1].before["b"])
    /\ stage = calls[1].before

\* ---------------------------------------------------------------- claims: operands outside the accepted variants

IsNumeric(value) == value.t \in {"num", "numvec"}
IsBoolean(value) == value.t \in {"bool", "boolvec"}
OperandErrors ==
    {"invalid operand for addition", "invalid operand for subtraction",
     "invalid operand for multiplication", "invalid operand for division",
     "invalid operand for exponential", "invalid operand for modulus",
     "invalid operand for ==", "invalid operand for !=",
     "invalid operand for |", "invalid operand for &", "invalid operand for ^",
     "invalid operand for <<", "invalid operand for >>",
     "invalid operand for ternary if", "invalid operand for ternary else"}
OperandFailure == Failed /\ ret.err \in OperandErrors

\* The calls C16 is about: a kernel of the matrix with an operand outside
\* its accepted variants, the nodata parameter absent or a float32.
NumericMisuse ==
    /\ op \in ArithmeticSymbols \cup BitwiseSymbols \cup EqualitySymbols
    /\ ~(op = "+" /\ (isString(left) \/ isString(right)))
    /\ (~IsNumeric(left) \/ ~IsNumeric(right))
TernaryIfMisuse ==
    /\ op = "?"
    /\ WellFormedNoData(parameters)
    /\ (~IsBoolean(left) \/ ~IsNumeric(right))
TernaryElseMisuse ==
    /\ op = ":"
    /\ WellFormedNoData(parameters)
    /\ (~IsNumeric(left) \/ ~IsNumeric(right))

\* C16 as stated: every kernel of the broadcasting matrix returns an
\* operand error and no value when an operand is outside its accepted
\* variants: arithmetic (other than + with a Str), bitwise and ==/!= on a
\* non-number, ternary-if on a non-bool left or non-number right, and
\* ternary-else on a non-number left or right, for every nodata sentinel.
C16_OperandErrors ==
    (pc = "done" /\ (NumericMisuse \/ TernaryIfMisuse \/ TernaryElseMisuse)) =>
        OperandFailure

\* What holds of the code: the same, except that ternary-else takes a left
\* that is not a float32 for the sentinel when the sentinel is 0 and right
\* is a number or a number vector, and returns right.
C16_ExceptZeroSentinel ==
    (pc = "done" /\ (NumericMisuse \/ TernaryIfMisuse \/ TernaryElseMisuse)) =>
        IF /\ op = ":"
           /\ left.t # "numvec"
           /\ IsNumeric(right)
           /\ FEq(getNoData(parameters).noData, Fin(0))
        THEN ret = Ok(right)
        ELSE OperandFailure

\* ---------------------------------------------------------------- kernels and the storage of their operands

\* A Go slice is a header over a backing array: memory is a sequence of
\* arrays, an array a sequence of cap slots, and a slice value is
\* [t, v] with v = [array, len], its elements the first len slots of the
\* array.  Scalars are the values they are everywhere else.
Slice(t, array, len) == [t |-> t, v |-> [array |-> array, len |-> len]]
IsSlice(value) == value.t \in {"list", "numvec", "boolvec"}
Cap(memory, s) == Len(memory[s.v.array])
Elems(memory, s) == SubSeq(memory[s.v.array], 1, s.v.len)
\* The value a kernel reads from an operand.
Deref(memory, value) ==
    IF IsSlice(value) THEN [t |-> value.t, v |-> Elems(memory, value)] ELSE value

\* make([]T, n) followed by the loop that fills res, or a slice literal:
\* a new array of exactly the elements.
make(memory, t, elems) ==
    [memory |-> Append(memory, elems), slice |-> Slice(t, Len(memory) + 1, Len(elems))]

\* append(s, x): into the spare slot of the backing array when there is
\* one, otherwise into a new array of twice the capacity.
append(memory, s, x) ==
    IF s.v.len < Cap(memory, s)
    THEN [memory |-> [memory EXCEPT ![s.v.array][s.v.len + 1] = x],
          slice |-> Slice(s.t, s.v.array, s.v.len + 1)]
    ELSE LET newcap == IF Cap(memory, s) = 0 THEN 1 ELSE 2 * Cap(memory, s)
             grown == [i \in 1..newcap |->
                          IF i <= s.v.len THEN memory[s.v.array][i]
                          ELSE IF i = s.v.len + 1 THEN x ELSE Nil]
         IN  [memory |-> Append(memory, grown),
              slice |-> Slice(s.t, Len(memory) + 1, s.v.len + 1)]

\* separatorStage on memory.
separatorStageMem(memory, l, r) ==
    LET made == IF l.t = "list" THEN append(memory, l, r)
                ELSE make(memory, "list", <<l, r>>)
    IN  [memory |-> made.memory, ret |-> Ok(made.slice)]

\* The kernel of each operator, by the operator's name.
kernel(name, l, r, params) ==
    CASE name = "+" -> addStage(l, r, params)
      [] name = "-" -> subtractStage(l, r, params)
      [] name = "*" -> multiplyStage(l, r, params)
      [] name = "/" -> divideStage(l, r, params)
      [] name = "**" -> exponentStage(l, r, params)
      [] name = "%" -> modulusStage(l, r, params)
      [] name = ">=" -> gteStage(l, r, params)
      [] name = ">" -> gtStage(l, r, params)
      [] name = "<=" -> lteStage(l, r, params)
      [] name = "<" -> ltStage(l, r, params)
      [] name = "==" -> equalStage(l, r, params)
      [] name = "!=" -> notEqualStage(l, r, params)
      [] name = "&&" -> andStage(l, r, params)
      [] name = "||" -> orStage(l, r, params)
      [] name = "|" -> bitwiseOrStage(l, r, params)
      [] name = "&" -> bitwiseAndStage(l, r, params)
      [] name = "^" -> bitwiseXORStage(l, r, params)
      [] name = "<<" -> leftShiftStage(l, r, params)
      [] name = ">>" -> rightShiftStage(l, r, params)
      [] name = "negate" -> negateStage(l, r, params)
      [] name = "invert" -> invertStage(l, r, params)
      [] name = "bitwiseNot" -> bitwiseNotStage(l, r, params)
      [] name = "?" -> ternaryIfStage(l, r, params)
      [] name = ":" -> ternaryElseStage(l, r, params)

\* A kernel of the matrix or a unary kernel on memory: it reads its
\* operands and writes a vector result to a slice it makes.
kernelMem(memory, name, l, r, params) ==
    LET result == kernel(name, Deref(memory, l), Deref(memory, r), params)
        made == make(memory, result.val.t, result.val.v)
    IN  IF result.err = NoErr /\ IsSlice(result.val)
        THEN [memory |-> made.memory, ret |-> Ok(made.slice)]
        ELSE [memory |-> memory, ret |-> result]

KernelNames ==
    NumericSymbols \cup LogicalSymbols \cup {"negate", "invert", "bitwiseNot", "?", ":"}

\* The caller's values: a list xs, with or without a spare slot after its
\* elements, a number vector v and a bool vector b.
MemElems == {Num(Fin(0)), Num(Fin(1))}
ListArrays ==
    {[i \in 1..k |-> Num(Fin(0))] \o spare : k \in 0..MaxListLen, spare \in {<<>>, <<Nil>>}}
ListLen(array) ==
    IF Len(array) > 0 /\ array[Len(array)] = Nil THEN Len(array) - 1 ELSE Len(array)
MemScalars == {Num(Fin(1)), Bool(TRUE)}

\* mid is the memory, alt the memory before the last call, calls the
\* slices the calls returned so far.
InitMem ==
    /\ left = Nil
    /\ right = Nil
    /\ alt = <<>>
    /\ \E xs \in ListArrays :
          /\ mid = <<xs, <<Fin(0), Fin(1)>>, <<TRUE, FALSE>>>>
          /\ parameters = [xs |-> Slice("list", 1, ListLen(xs)),
                           v |-> Slice("numvec", 2, 2),
                           b |-> Slice("boolvec", 3, 2)]
    /\ stage = NoStage
    /\ op = "none"
    /\ ret = NoRet
    /\ calls = <<>>
    /\ pc = "ready"

CallMem(name, l, r, result) ==
    /\ Len(calls) < MaxCalls
    /\ left' = l
    /\ right' = r
    /\ op' = name
    /\ alt' = mid
    /\ mid' = result.memory
    /\ ret' = result.ret
    /\ calls' = IF IsSlice(result.ret.val) THEN Append(calls, result.ret.val) ELSE calls
    /\ pc' = "called"
    /\ UNCHANGED <<parameters, stage>>

\* The lists that exist: the caller's and those the calls returned.
KnownLists == {parameters.xs} \cup {calls[j] : j \in {k \in 1..Len(calls) : calls[k].t = "list"}}

SeparatorMem ==
    \E l \in KnownLists \cup MemScalars, r \in MemElems :
        CallMem(",", l, r, separatorStageMem(mid, l, r))

\* One call of a kernel of the matrix or a unary kernel on the caller's
\* vectors and scalars, before the separator calls.
KernelMem ==
    /\ pc = "ready"
    /\ \E name \in KernelNames, l \in {parameters.v, parameters.b} \cup MemScalars,
          r \in {parameters.v, parameters.b} \cup MemScalars :
          CallMem(name, l, r, kernelMem(mid, name, l, r, NoParams))

NextMem == SeparatorMem \/ KernelMem

SpecMem == InitMem /\ [][NextMem]_vars

Called == pc = "called"
\* The slices that existed before the last call.
KnownBefore ==
    {parameters[name] : name \in DOMAIN parameters}
        \cup {calls[j] : j \in 1..(IF IsSlice(ret.val) THEN Len(calls) - 1 ELSE Len(calls))}
SameAsBefore(s) == Elems(mid, s) = Elems(alt, s)

\* C17 as stated: no kernel modifies its operands: after any kernel call
\* every vector or list passed as left or right, and every other vector or
\* list that shares storage with it, has the length and the elements it had
\* before the call; a further separator call cannot change a list that was
\* returned before.
C17_OperandsUnchanged ==
    Called => \A s \in KnownBefore : SameAsBefore(s)

\* What holds of the code: the operands themselves are unchanged by every
\* kernel, and only the separator changes another slice, one that shares
\* the backing array of its left list and is longer than it.
C17_OnlySeparatorAliases ==
    Called =>
        /\ IsSlice(left) => SameAsBefore(left)
        /\ IsSlice(right) => SameAsBefore(right)
        /\ \A s \in KnownBefore :
              ~SameAsBefore(s) =>
                  /\ op = ","
                  /\ left.t = "list"
                  /\ s.v.array = left.v.array
                  /\ s.v.len > left.v.len


====
